---- MODULE Spec2Model ----
(***************************************************************************)
(* Nexura spam classification: the per-user policy (whitelist, blacklist,  *)
(* auto-block settings), the classification pipeline behind                *)
(* POST /messages/analyze (override matcher, pattern classifier, oracle    *)
(* classifier, decision aggregator) and the mobile client that calls it    *)
(* (AnalyzeScreen, SMSDetectionService, Whitelist/Blacklist screens).      *)
(*                                                                         *)
(* The client is modelled from its TypeScript source.  The backend is not  *)
(* part of the source tree; its operations are modelled from the           *)
(* specification's contracts (sections 3, 4 and 6) and from docs/*.md.     *)
(*                                                                         *)
(* Strings are sequences of one-character strings, so that trimming,       *)
(* phone normalisation, lower-casing and substring search are computed.    *)
(* Confidence values and thresholds are integer percentages (0.8 = 80).    *)
(***************************************************************************)
EXTENDS Naturals, Sequences, FiniteSets

VARIABLES
    whitelist,        \* stored UserPolicy.whitelist: sequence of entries
    blacklist,        \* stored UserPolicy.blacklist: sequence of entries
    opResult,         \* the last whitelist/blacklist operation and its outcome
    auto_block_spam,  \* UserPolicy.auto_block_spam
    auto_block_threshold, \* UserPolicy.auto_block_threshold, in percent
    block_categories, \* UserPolicy.block_categories
    smsAutoBlock,     \* AsyncStorage item 'sms_auto_block': "null", "true", "false"
    pc,               \* position of the classification request in flight
    req,              \* the request: content, sender, source
    hit,              \* Override Matcher result for the request
    patternResult,    \* Pattern Classifier candidate, <<>> before it ran
    candidate,        \* the SpamAnalysis handed to the Decision Aggregator
    oracleCalls,      \* oracle inference calls issued for the request
    oracleFailures,   \* failed oracle calls for the request
    verdictPath,      \* which stage produced the final SpamAnalysis
    message,          \* the persisted Message record, <<>> if none
    response,         \* what the caller got: "none", "ok", "InvalidInput"
    smsPc,            \* position of SMSDetectionService.handleIncomingSMS
    detectedSMS,      \* the DetectedSMS being built by handleIncomingSMS
    smsHistory,       \* the stored 'sms_detected_<id>' item, <<>> if none
    notified,         \* showSpamWarning was called for the request
    policyStored,     \* the user has a stored policy (else the default is in force)
    total_messages_analyzed, \* User.total_messages_analyzed
    total_spam_blocked,      \* User.total_spam_blocked
    cancelled,        \* the SMS analysis in flight was cancelled (stop or logout)
    messages,         \* the user's Message records: id -> record
    created,          \* Message records created so far (ids are 1..created)
    createdBlocked,   \* of those, the records created with is_blocked=true
    cls,              \* concurrent classification requests, one per request slot
    fbCalls,          \* provideFeedback calls in submission order
    delResult,        \* the last delete call and what the screen did with it
    isAuthenticated,  \* AuthContext.isAuthenticated
    enabledItem,      \* AsyncStorage '<service>_detection_enabled' per service
    isListening,      \* the service's isListening field
    subscription,     \* the service's subscription / callDetector field is set
    nativeListeners,  \* native listeners currently registered per service
    startPc,          \* per service and caller: position in setEnabled/startListening
    lastCheckedNumber, \* CallDetectionService.lastCheckedNumber
    lookups,          \* CallerAPI.lookupNumber calls per number since the last Disconnected
    lookupsInFlight,  \* lookups not yet answered, per number
    callHistory,      \* numbers with a stored 'call_lookup_<timestamp>' item
    accessToken,      \* SecureStore item 'nexura_access_token': 0 when absent
    refreshToken,     \* SecureStore item 'nexura_refresh_token': 0 when absent
    issued,           \* token pairs the server has issued so far
    isLoading,        \* AuthProvider.isLoading
    authPc,           \* position of the AuthProvider function that is running
    checkOutcome,     \* how checkAuthState ended: "none" before it did
    http,             \* requests of the axios instance `api`, one per request slot
    refreshedOk       \* some response interceptor's token refresh has succeeded

listVars == <<whitelist, blacklist, opResult>>
settingVars == <<auto_block_spam, auto_block_threshold, block_categories, policyStored>>
counterVars == <<total_messages_analyzed, total_spam_blocked>>
storeVars == <<messages, created, createdBlocked, cls, fbCalls, delResult>>
svcVars == <<isAuthenticated, enabledItem, isListening, subscription, nativeListeners,
             startPc>>
callVars == <<lastCheckedNumber, lookups, lookupsInFlight, callHistory>>
authVars == <<accessToken, refreshToken, issued, isLoading, authPc, checkOutcome, http,
              refreshedOk>>
extVars == <<storeVars, svcVars, callVars, authVars>>
restVars == <<counterVars, cancelled, extVars>>
pipeVars == <<pc, req, hit, patternResult, candidate, oracleCalls, oracleFailures,
              verdictPath, message, response>>
smsVars == <<smsPc, detectedSMS, smsHistory, notified>>
vars == <<whitelist, blacklist, opResult, auto_block_spam, auto_block_threshold,
          block_categories, smsAutoBlock, pc, req, hit, patternResult,
          candidate, oracleCalls, oracleFailures, verdictPath, message, response,
          smsPc, detectedSMS, smsHistory, notified, policyStored,
          total_messages_analyzed, total_spam_blocked, cancelled, messages, created,
          createdBlocked, cls, fbCalls, delResult, isAuthenticated, enabledItem,
          isListening, subscription, nativeListeners, startPc, lastCheckedNumber,
          lookups, lookupsInFlight, callHistory, accessToken, refreshToken, issued,
          isLoading, authPc, checkOutcome, http, refreshedOk>>

-----------------------------------------------------------------------------
(* Strings *)

\* String.prototype.trim on the characters the model uses.
RECURSIVE TrimLeft(_)
TrimLeft(s) == IF s # <<>> /\ Head(s) = " " THEN TrimLeft(Tail(s)) ELSE s

RECURSIVE TrimRight(_)
TrimRight(s) ==
    IF s # <<>> /\ s[Len(s)] = " " THEN TrimRight(SubSeq(s, 1, Len(s) - 1)) ELSE s

Trim(s) == TrimRight(TrimLeft(s))

Digits == {"0", "1", "2", "3", "4", "5", "6", "7", "8", "9"}

IsDigit(c) == c \in Digits

\* Phone numbers are compared in digits-only form.
NormalizePhone(s) == SelectSeq(s, IsDigit)

UpperToLower ==
    [c \in {"A", "B", "E", "I", "K", "L", "N", "O", "R", "T", "U", "W"} |->
        CASE c = "A" -> "a" [] c = "B" -> "b" [] c = "E" -> "e" [] c = "I" -> "i"
          [] c = "K" -> "k" [] c = "L" -> "l" [] c = "N" -> "n" [] c = "O" -> "o"
          [] c = "R" -> "r" [] c = "T" -> "t" [] c = "U" -> "u" [] c = "W" -> "w"]

LowerChar(c) == IF c \in DOMAIN UpperToLower THEN UpperToLower[c] ELSE c

\* Emails and keyword matching are case-insensitive.
Lower(s) == [i \in 1..Len(s) |-> LowerChar(s[i])]

\* needle occurs in hay as a contiguous substring.
Contains(hay, needle) ==
    \E i \in 1..(Len(hay) + 1) :
        /\ i + Len(needle) - 1 <= Len(hay)
        /\ SubSeq(hay, i, i + Len(needle) - 1) = needle

ContainsIgnoreCase(hay, needle) == Contains(Lower(hay), Lower(needle))

-----------------------------------------------------------------------------
(* Enumerations of the data model *)

Categories == {"safe", "betting", "phishing", "scam", "malware", "promotional",
               "fraud", "lottery", "investment", "other"}

RiskLevels == {"low", "medium", "high", "critical"}

Actions == {"allow", "warn", "block"}

-----------------------------------------------------------------------------
(* Whitelist / blacklist entries and the operations that mutate them *)

\* Most entries one list holds in the model.
MaxEntries == 2

Entry(v, t, r) == [value |-> v, type |-> t, reason |-> r]

Values(list) == {list[i].value : i \in 1..Len(list)}

HasValue(list, v) == v \in Values(list)

\* What the user types in the add dialogs: raw text, entry type, and for the
\* blacklist a reason ("" when left empty, or text naming a category).
RawValues == {<<"+", "5">>, <<"5">>, <<" ", "5">>, <<"A">>, <<"k">>, <<" ">>}

TypeOfRaw(raw) ==
    CASE Trim(raw) = <<"A">> -> "email"
      [] Trim(raw) = <<"k">> -> "keyword"
      [] OTHER -> "phone"

Reasons == {"", "scam"}

\* An add that never looks for the value.
AddResultNoCheck(list, v) == "ok"

\* Policy boundary, add: DuplicateEntry when the value is already in the same
\* list, otherwise the entry is appended.
AddResult(list, v) == IF HasValue(list, v) THEN "DuplicateEntry" ELSE "ok"

AddEntry(list, e) == IF AddResult(list, e.value) = "ok" THEN Append(list, e) ELSE list

\* Policy boundary, remove: NotFound when the value is absent, otherwise the
\* entry keyed by the value is removed.
RemoveResult(list, v) == IF HasValue(list, v) THEN "ok" ELSE "NotFound"

RemoveEntry(list, v) == SelectSeq(list, LAMBDA e : e.value # v)

StoredValues == {Trim(raw) : raw \in RawValues} \ {<<>>}

NoOp == [op |-> "none", value |-> <<>>, result |-> "none"]

Op(name, v, outcome) == [op |-> name, value |-> v, result |-> outcome]

\* WhitelistScreen.handleAddEntry: a blank value is refused in the client;
\* otherwise the trimmed value is sent to POST /users/me/whitelist.  The note
\* is free text the pipeline never reads.  (The dialog offers the types phone
\* and email; UserAPI.addToWhitelist takes any type, keyword included.)
WhitelistAdd(raw) ==
    /\ pc = "idle"
    /\ IF Trim(raw) = <<>>
       THEN /\ opResult' = Op("addToWhitelist", Trim(raw), "EmptyValue")
            /\ UNCHANGED whitelist
       ELSE /\ AddResult(whitelist, Trim(raw)) = "ok" => Len(whitelist) < MaxEntries
            /\ opResult' = Op("addToWhitelist", Trim(raw), AddResult(whitelist, Trim(raw)))
            /\ whitelist' = AddEntry(whitelist, Entry(Trim(raw), TypeOfRaw(raw), ""))
    /\ UNCHANGED <<blacklist, settingVars, restVars, smsAutoBlock, pipeVars, smsVars>>

\* BlacklistScreen.handleAddEntry, with the reason typed by the user.
BlacklistAdd(raw, reason) ==
    /\ pc = "idle"
    /\ IF Trim(raw) = <<>>
       THEN /\ opResult' = Op("addToBlacklist", Trim(raw), "EmptyValue")
            /\ UNCHANGED blacklist
       ELSE /\ AddResult(blacklist, Trim(raw)) = "ok" => Len(blacklist) < MaxEntries
            /\ opResult' = Op("addToBlacklist", Trim(raw), AddResult(blacklist, Trim(raw)))
            /\ blacklist' = AddEntry(blacklist, Entry(Trim(raw), TypeOfRaw(raw), reason))
    /\ UNCHANGED <<whitelist, settingVars, restVars, smsAutoBlock, pipeVars, smsVars>>

\* WhitelistScreen.handleRemoveEntry -> DELETE /users/me/whitelist/{value}.
WhitelistRemove(v) ==
    /\ pc = "idle"
    /\ opResult' = Op("removeFromWhitelist", v, RemoveResult(whitelist, v))
    /\ whitelist' = IF RemoveResult(whitelist, v) = "ok"
                    THEN RemoveEntry(whitelist, v) ELSE whitelist
    /\ UNCHANGED <<blacklist, settingVars, restVars, smsAutoBlock, pipeVars, smsVars>>

\* BlacklistScreen.handleRemoveEntry -> DELETE /users/me/blacklist/{value}.
BlacklistRemove(v) ==
    /\ pc = "idle"
    /\ opResult' = Op("removeFromBlacklist", v, RemoveResult(blacklist, v))
    /\ blacklist' = IF RemoveResult(blacklist, v) = "ok"
                    THEN RemoveEntry(blacklist, v) ELSE blacklist
    /\ UNCHANGED <<whitelist, settingVars, restVars, smsAutoBlock, pipeVars, smsVars>>

-----------------------------------------------------------------------------
(* Override Matcher *)

NoSender == <<>>

\* An identity entry matches the sender on the normalised form of both:
\* digits only for type phone, lower case for type email.
MatchesIdentity(e, sender) ==
    /\ sender # NoSender
    /\ \/ e.type = "phone" /\ NormalizePhone(e.value) = NormalizePhone(sender)
       \/ e.type = "email" /\ Lower(e.value) = Lower(sender)

\* A keyword entry matches when the content contains it, ignoring case.
MatchesKeyword(e, content) ==
    e.type = "keyword" /\ ContainsIgnoreCase(content, e.value)

IdentityMatch(list, sender) ==
    \E i \in 1..Len(list) : MatchesIdentity(list[i], sender)

KeywordMatch(list, content) ==
    \E i \in 1..Len(list) : MatchesKeyword(list[i], content)

\* A matcher that runs the whole whitelist check before the blacklist check.
OverrideMatchFlat(sender, content, wl, bl) ==
    IF IdentityMatch(wl, sender) \/ KeywordMatch(wl, content) THEN "WhitelistHit"
    ELSE IF IdentityMatch(bl, sender) \/ KeywordMatch(bl, content) THEN "BlacklistHit"
    ELSE "NoMatch"

\* Identity entries of both lists are consulted first, whitelist before
\* blacklist; keyword entries only when no identity entry matched.
OverrideMatch(sender, content, wl, bl) ==
    IF IdentityMatch(wl, sender) THEN "WhitelistHit"
    ELSE IF IdentityMatch(bl, sender) THEN "BlacklistHit"
    ELSE IF KeywordMatch(wl, content) THEN "WhitelistHit"
    ELSE IF KeywordMatch(bl, content) THEN "BlacklistHit"
    ELSE "NoMatch"

\* The blacklist entry that settled a BlacklistHit: the first matching identity
\* entry, else the first matching keyword entry.
HitEntry(sender, content, bl) ==
    IF IdentityMatch(bl, sender)
    THEN bl[CHOOSE i \in 1..Len(bl) :
                /\ MatchesIdentity(bl[i], sender)
                /\ \A j \in 1..(i - 1) : ~MatchesIdentity(bl[j], sender)]
    ELSE bl[CHOOSE i \in 1..Len(bl) :
                /\ MatchesKeyword(bl[i], content)
                /\ \A j \in 1..(i - 1) : ~MatchesKeyword(bl[j], content)]

\* Category of a BlacklistHit: the entry's reason when it names a category.
ReasonCategory(e) == IF e.reason \in Categories THEN e.reason ELSE "other"

-----------------------------------------------------------------------------
(* SpamAnalysis and its derived fields *)

MediumRiskFrom == 50
HighRiskFrom == 80
CriticalRiskFrom == 90

CriticalCategories == {"phishing", "malware", "fraud"}

\* risk_level is derived from confidence and category severity, monotonically
\* in the confidence; category safe is always low.
RiskLevel(conf, cat) ==
    IF cat = "safe" \/ conf < MediumRiskFrom THEN "low"
    ELSE IF conf < HighRiskFrom THEN "medium"
    ELSE IF cat \in CriticalCategories /\ conf >= CriticalRiskFrom THEN "critical"
    ELSE "high"

\* docs/API.md, Risk Levels: low allows, medium warns, high and critical block.
ActionOf(risk) ==
    CASE risk = "low" -> "allow"
      [] risk = "medium" -> "warn"
      [] risk \in {"high", "critical"} -> "block"

Analysis(spam, conf, cat, risk, action, why, patterns) ==
    [is_spam |-> spam, confidence |-> conf, category |-> cat, risk_level |-> risk,
     recommended_action |-> action, explanation |-> why,
     detected_patterns |-> patterns]

Derived(spam, conf, cat, why, patterns) ==
    Analysis(spam, conf, cat, RiskLevel(conf, cat), ActionOf(RiskLevel(conf, cat)),
             why, patterns)

\* WhitelistHit: is_spam=false, confidence=1.0, category=safe, action=allow.
WhitelistAnalysis == Derived(FALSE, 100, "safe", "whitelist", <<>>)

\* BlacklistHit: is_spam=true, confidence=1.0, action=block (forced), category
\* from the entry.
BlacklistAnalysis(e) ==
    Analysis(TRUE, 100, ReasonCategory(e), RiskLevel(100, ReasonCategory(e)),
             "block", "blacklist", <<>>)

-----------------------------------------------------------------------------
(* Pattern Classifier *)

\* The ordered battery of detectors: a phrase looked up in the content
\* (ignoring case), the category it tags and its confidence.
BettingConfidence == 95
LinkConfidence == 90
PrizeConfidence == 60

Detectors ==
    << [id |-> "betting_phrase", phrase |-> <<"b", "e", "t">>,
        category |-> "betting", confidence |-> BettingConfidence],
       [id |-> "short_link", phrase |-> <<"u", "r", "l">>,
        category |-> "phishing", confidence |-> LinkConfidence],
       [id |-> "prize_phrase", phrase |-> <<"w", "i", "n">>,
        category |-> "lottery", confidence |-> PrizeConfidence] >>

Fires(d, content) == ContainsIgnoreCase(content, d.phrase)

Fired(content) == SelectSeq(Detectors, LAMBDA d : Fires(d, content))

RECURSIVE MaxConfidence(_)
MaxConfidence(ds) ==
    IF ds = <<>> THEN 0
    ELSE IF Head(ds).confidence >= MaxConfidence(Tail(ds))
         THEN Head(ds).confidence ELSE MaxConfidence(Tail(ds))

\* The first fired detector that carries the maximum confidence.
Strongest(ds) ==
    ds[CHOOSE i \in 1..Len(ds) :
          /\ ds[i].confidence = MaxConfidence(ds)
          /\ \A j \in 1..(i - 1) : ds[j].confidence # MaxConfidence(ds)]

PatternIds(ds) == [i \in 1..Len(ds) |-> ds[i].id]

\* No detector fired: is_spam=false, confidence=0, category=safe.  Otherwise
\* the maximum (not the sum) of the fired detectors' confidences and the
\* category of the strongest one.
PatternClassify(content) ==
    IF Fired(content) = <<>>
    THEN Derived(FALSE, 0, "safe", "pattern", <<>>)
    ELSE Derived(TRUE, MaxConfidence(Fired(content)),
                 Strongest(Fired(content)).category, "pattern",
                 PatternIds(Fired(content)))

\* docs/ARCHITECTURE.md: "High Confidence (>= 0.9)".
ConfidentThreshold == 90

\* A comparison that leaves 0.9 itself unconfident.
IsConfidentStrict(a) == a.confidence > ConfidentThreshold

\* A pattern result at or above the threshold is returned without the oracle.
IsConfident(a) == a.confidence >= ConfidentThreshold

-----------------------------------------------------------------------------
(* Oracle Classifier *)

\* One retry after a transient failure.
MaxRetries == 1

TransientFailures == {"timeout", "unavailable"}

\* What the language model may send back.  The last two cannot be mapped
\* into the schema (confidence out of range, unknown category token).
OracleOutputs ==
    { [is_spam |-> FALSE, confidence |-> 97, category |-> "safe",
       risk_level |-> "low", recommended_action |-> "allow"],
      [is_spam |-> TRUE, confidence |-> 95, category |-> "scam",
       risk_level |-> "critical", recommended_action |-> "block"],
      [is_spam |-> TRUE, confidence |-> 60, category |-> "promotional",
       risk_level |-> "medium", recommended_action |-> "warn"],
      [is_spam |-> TRUE, confidence |-> 85, category |-> "betting",
       risk_level |-> "low", recommended_action |-> "block"],
      [is_spam |-> TRUE, confidence |-> 85, category |-> "lottery",
       risk_level |-> "high", recommended_action |-> "block"],
      [is_spam |-> TRUE, confidence |-> 150, category |-> "scam",
       risk_level |-> "high", recommended_action |-> "block"],
      [is_spam |-> TRUE, confidence |-> 90, category |-> "junk",
       risk_level |-> "high", recommended_action |-> "block"] }

\* Strict parsing: every field must lie in the schema of the data model.
SchemaValid(raw) ==
    /\ raw.is_spam \in BOOLEAN
    /\ raw.confidence \in 0..100
    /\ raw.category \in Categories
    /\ raw.risk_level \in RiskLevels
    /\ raw.recommended_action \in Actions

\* A valid response is taken over as it is.
FromOracle(raw) ==
    Analysis(raw.is_spam, raw.confidence, raw.category, raw.risk_level,
             raw.recommended_action, "oracle", <<>>)

\* A retry budget that is one too large.
CanRetryTwice(failures) == failures <= MaxRetries + 1

\* After a transient failure the call is retried while the failures so far do
\* not exceed MaxRetries; the next failure is terminal.
CanRetry(failures) == failures <= MaxRetries

Min(a, b) == IF a <= b THEN a ELSE b

\* A fallback that reports a neutral confidence of 0.5 instead of capping.
FailOpenNeutral(p, threshold) ==
    Derived(p.is_spam, 50,
            IF p.category = "safe" THEN "other" ELSE p.category,
            "degraded", p.detected_patterns)

\* Terminal failure: the pattern result with its confidence capped below the
\* auto-block threshold, category other when no local category fired.
FailOpen(p, threshold) ==
    Derived(p.is_spam, Min(p.confidence, threshold - 1),
            IF p.category = "safe" THEN "other" ELSE p.category,
            "degraded", p.detected_patterns)

-----------------------------------------------------------------------------
(* Decision Aggregator *)

\* Most Message records one user creates in the model.
MaxAnalyzed == 1

\* A read-modify-write in the engine: the new value is computed from the
\* counter as the request saw it when it arrived.
IncrementFromRead(stored, seen) == seen + 1

\* Counter increments are atomic at the storage boundary: applied to the
\* stored value, whatever the request read earlier.
Increment(stored, seen) == stored + 1

\* is_blocked: overrides bypass the gate; otherwise is_spam AND auto_block_spam
\* AND confidence >= auto_block_threshold AND category in block_categories.
IsBlocked(a, h, enabled, threshold, cats) ==
    IF h = "WhitelistHit" THEN FALSE
    ELSE IF h = "BlacklistHit" THEN TRUE
    ELSE a.is_spam /\ enabled /\ a.confidence >= threshold /\ a.category \in cats

-----------------------------------------------------------------------------
(* Requests *)

Contents ==
    { <<>>, <<" ">>, <<"h", "i">>, <<"O", "K">>, <<"w", "i", "n">>,
      <<"u", "r", "l">>, <<"B", "E", "T">>, <<"w", "i", "n", "B", "E", "T">> }

Senders == { NoSender, <<"+", "5">>, <<"a">>, <<"7">> }

NoRequest == [content |-> <<>>, sender |-> NoSender, source |-> "none"]

\* MessageAPI.analyze: source defaults to 'manual'.
AnalyzeRequest(content, sender, source) ==
    [content |-> content, sender |-> sender,
     source |-> IF source = "" THEN "manual" ELSE source]

PipelineIdle ==
    /\ pc = "idle"
    /\ req = NoRequest
    /\ hit = "none"
    /\ patternResult = <<>>
    /\ candidate = <<>>
    /\ oracleCalls = 0
    /\ oracleFailures = 0
    /\ verdictPath = "none"
    /\ message = <<>>
    /\ response = "none"

SmsIdle ==
    /\ smsPc = "idle"
    /\ detectedSMS = <<>>
    /\ smsHistory = <<>>
    /\ notified = FALSE

ResetPipeline ==
    /\ pc' = "idle"
    /\ req' = NoRequest
    /\ hit' = "none"
    /\ patternResult' = <<>>
    /\ candidate' = <<>>
    /\ oracleCalls' = 0
    /\ oracleFailures' = 0
    /\ verdictPath' = "none"
    /\ message' = <<>>
    /\ response' = "none"

ResetSms ==
    /\ smsPc' = "idle"
    /\ detectedSMS' = <<>>
    /\ smsHistory' = <<>>
    /\ notified' = FALSE

\* What was typed when the screen refused to send it.
Typed(content, sender) == [content |-> content, sender |-> sender, source |-> "none"]

\* AnalyzeScreen.handleAnalyze: a blank message is refused in the client with
\* an error alert and nothing is sent; otherwise POST /messages/analyze with
\* source 'manual'.
HandleAnalyze(content, sender) ==
    /\ pc = "idle" /\ smsPc = "idle"
    /\ Trim(content) = <<>> \/ total_messages_analyzed < MaxAnalyzed
    /\ IF Trim(content) = <<>>
       THEN /\ req' = Typed(content, sender)
            /\ response' = "EnterMessageAlert"
            /\ pc' = "done"
       ELSE /\ req' = AnalyzeRequest(content, sender, "manual")
            /\ response' = response
            /\ pc' = "received"
    /\ UNCHANGED <<listVars, settingVars, restVars, smsAutoBlock, hit, patternResult,
                   candidate, oracleCalls, oracleFailures, verdictPath, message,
                   smsVars>>

\* The SmsListener callback: handleIncomingSMS posts the body and the
\* originating address with source 'sms_auto'.
IncomingSMS(body, address) ==
    /\ pc = "idle" /\ smsPc = "idle"
    /\ nativeListeners["sms"] > 0
    /\ body = <<>> \/ total_messages_analyzed < MaxAnalyzed
    /\ req' = AnalyzeRequest(body, address, "sms_auto")
    /\ pc' = "received"
    /\ smsPc' = "analyzing"
    /\ UNCHANGED <<listVars, settingVars, restVars, smsAutoBlock, hit, patternResult,
                   candidate, oracleCalls, oracleFailures, verdictPath, message,
                   response, detectedSMS, smsHistory, notified>>

-----------------------------------------------------------------------------
(* The pipeline: Config Resolver -> Override Matcher -> Pattern Classifier ->
   Oracle Classifier -> Decision Aggregator.  The policy is read once, when
   the request arrives; list operations wait for pc = "idle". *)

\* A validation that lets every content through.
AnyContentValid(content) == FALSE

\* The classification request requires non-empty content.
IsEmptyContent(content) == content = <<>>

\* Empty content is InvalidInput: no record.  Otherwise the Override Matcher
\* runs on the resolved policy and short-circuits on a hit.
MatchOverride ==
    /\ pc = "received"
    /\ IF IsEmptyContent(req.content)
       THEN /\ response' = "InvalidInput"
            /\ pc' = "done"
            /\ UNCHANGED <<hit, candidate, verdictPath>>
       ELSE /\ hit' = OverrideMatch(req.sender, req.content, whitelist, blacklist)
            /\ response' = response
            /\ candidate' =
                 CASE hit' = "WhitelistHit" -> <<WhitelistAnalysis>>
                   [] hit' = "BlacklistHit" ->
                        <<BlacklistAnalysis(HitEntry(req.sender, req.content, blacklist))>>
                   [] OTHER -> <<>>
            /\ verdictPath' =
                 CASE hit' = "WhitelistHit" -> "whitelist"
                   [] hit' = "BlacklistHit" -> "blacklist"
                   [] OTHER -> "none"
            /\ pc' = IF hit' = "NoMatch" THEN "pattern" ELSE "aggregate"
    /\ UNCHANGED <<listVars, settingVars, restVars, smsAutoBlock, req, patternResult,
                   oracleCalls, oracleFailures, message, smsVars>>

\* The Pattern Classifier; a confident result is final and skips the oracle.
RunPatterns ==
    /\ pc = "pattern"
    /\ patternResult' = <<PatternClassify(req.content)>>
    /\ IF IsConfident(PatternClassify(req.content))
       THEN /\ candidate' = patternResult'
            /\ verdictPath' = "pattern"
            /\ pc' = "aggregate"
       ELSE /\ pc' = "oracle"
            /\ UNCHANGED <<candidate, verdictPath>>
    /\ UNCHANGED <<listVars, settingVars, restVars, smsAutoBlock, req, hit, oracleCalls,
                   oracleFailures, message, response, smsVars>>

\* One inference call that comes back with output.  Valid output is the
\* verdict; output outside the schema is a terminal failure (fail open).
OracleAnswers(raw) ==
    /\ pc = "oracle"
    /\ oracleCalls' = oracleCalls + 1
    /\ IF SchemaValid(raw)
       THEN /\ candidate' = <<FromOracle(raw)>>
            /\ verdictPath' = "oracle"
            /\ UNCHANGED oracleFailures
       ELSE /\ candidate' = <<FailOpen(patternResult[1], auto_block_threshold)>>
            /\ verdictPath' = "failopen"
            /\ oracleFailures' = oracleFailures + 1
    /\ pc' = "aggregate"
    /\ UNCHANGED <<listVars, settingVars, restVars, smsAutoBlock, req, hit, patternResult,
                   message, response, smsVars>>

\* One inference call that fails transiently (timeout, 5xx, rate limit): one
\* retry, then fail open.
OracleFails(kind) ==
    /\ pc = "oracle"
    /\ oracleCalls' = oracleCalls + 1
    /\ oracleFailures' = oracleFailures + 1
    /\ IF CanRetry(oracleFailures')
       THEN /\ pc' = "oracle"
            /\ UNCHANGED <<candidate, verdictPath>>
       ELSE /\ candidate' = <<FailOpen(patternResult[1], auto_block_threshold)>>
            /\ verdictPath' = "failopen"
            /\ pc' = "aggregate"
    /\ UNCHANGED <<listVars, settingVars, restVars, smsAutoBlock, req, hit, patternResult,
                   message, response, smsVars>>

\* The Decision Aggregator persists the Message with its SpamAnalysis and the
\* is_blocked flag, updates the user's counters with it, and the request
\* returns the record.
Aggregate ==
    /\ pc = "aggregate"
    /\ message' = << [content |-> req.content, sender |-> req.sender,
                      source |-> req.source, analysis |-> candidate[1],
                      is_blocked |-> IsBlocked(candidate[1], hit, auto_block_spam,
                                               auto_block_threshold, block_categories),
                      user_feedback |-> "none"] >>
    /\ total_messages_analyzed' =
          Increment(total_messages_analyzed, total_messages_analyzed)
    /\ total_spam_blocked' =
          IF message'[1].is_blocked
          THEN Increment(total_spam_blocked, total_spam_blocked)
          ELSE total_spam_blocked
    /\ response' = "ok"
    /\ pc' = "done"
    /\ UNCHANGED <<listVars, settingVars, cancelled, extVars, smsAutoBlock, req, hit, patternResult,
                   candidate, oracleCalls, oracleFailures, verdictPath, smsVars>>

-----------------------------------------------------------------------------
(* SMSDetectionService *)

BoolToString(b) == IF b THEN "true" ELSE "false"

\* setAutoBlock: AsyncStorage.setItem(SMS_AUTO_BLOCK_KEY, enabled.toString()).
SetAutoBlock(enabled) ==
    /\ smsAutoBlock' = BoolToString(enabled)
    /\ smsAutoBlock' # smsAutoBlock
    /\ UNCHANGED <<listVars, settingVars, restVars, pipeVars, smsVars>>

\* isAutoBlockEnabled: the stored item equals 'true'; false when the read throws.
IsAutoBlockEnabled(item, readOk) == readOk /\ item = "true"

\* A flag that follows the auto-block switch alone.
BlockedFlagAutoOnly(autoBlockEnabled, is_spam) == autoBlockEnabled

\* handleIncomingSMS: blocked starts false and is set when auto-block is
\* enabled and the analysis says spam.
BlockedFlag(autoBlockEnabled, is_spam) == autoBlockEnabled /\ is_spam

\* await MessageAPI.analyze(...) settles: the DetectedSMS is built with
\* blocked=false, or the rejection lands in the catch block.
SmsAnalysisReturned ==
    /\ smsPc = "analyzing" /\ pc = "done"
    /\ IF response = "ok"
       THEN /\ detectedSMS' = << [sender |-> req.sender, content |-> req.content,
                                  analysis |-> message[1], blocked |-> FALSE] >>
            /\ smsPc' = "checkAutoBlock"
       ELSE /\ smsPc' = "finished"
            /\ UNCHANGED detectedSMS
    /\ UNCHANGED <<listVars, settingVars, restVars, smsAutoBlock, pipeVars, smsHistory, notified>>

\* How the analysis call fails without an answer of the backend.
TransportFailures == {"NetworkError", "Timeout"}

\* A catch block that warns the user about the message.
CatchWarns(error) == TRUE

\* The catch block of handleIncomingSMS logs the error and does nothing else.
CatchNotifies(error) == FALSE

\* await MessageAPI.analyze(...) rejects although the request is valid: it
\* never reached the backend, or the answer was lost or came too late.
SmsAnalysisFailed(error) ==
    /\ smsPc = "analyzing" /\ pc \in {"received", "done"}
    /\ smsPc' = "finished"
    /\ notified' = CatchNotifies(error)
    /\ UNCHANGED <<listVars, settingVars, restVars, smsAutoBlock, pipeVars, detectedSMS,
                   smsHistory>>

\* await this.isAutoBlockEnabled(), then the blocked flag.
SmsCheckAutoBlock(readOk) ==
    /\ smsPc = "checkAutoBlock"
    /\ detectedSMS' =
         << [detectedSMS[1] EXCEPT !.blocked =
                BlockedFlag(IsAutoBlockEnabled(smsAutoBlock, readOk),
                            detectedSMS[1].analysis.analysis.is_spam)] >>
    /\ smsPc' = "store"
    /\ UNCHANGED <<listVars, settingVars, restVars, smsAutoBlock, pipeVars, smsHistory, notified>>

\* await this.storeDetectedSMS(detectedSMS) (a failed write is logged and
\* swallowed), then showSpamWarning when the analysis says spam.
SmsStore(writeOk) ==
    /\ smsPc = "store"
    /\ smsHistory' = IF writeOk THEN detectedSMS ELSE <<>>
    /\ notified' = detectedSMS[1].analysis.analysis.is_spam
    /\ smsPc' = "finished"
    /\ UNCHANGED <<listVars, settingVars, restVars, smsAutoBlock, pipeVars, detectedSMS>>

\* The request is over; the next message may arrive.
Finish ==
    /\ \/ pc = "done" /\ smsPc = "idle"
       \/ smsPc = "finished"
    /\ ResetPipeline
    /\ ResetSms
    /\ cancelled' = FALSE
    /\ UNCHANGED <<listVars, settingVars, smsAutoBlock, counterVars, extVars>>

-----------------------------------------------------------------------------
(* Specifications *)

AllNonSafe == Categories \ {"safe"}

\* docs/API.md, Get Settings response.
DocBlockCategories == {"betting", "phishing", "scam", "malware", "fraud"}

DefaultThreshold == 80

\* Lowest threshold the policy accepts (auto_block_threshold in [0.5, 1.0]).
MinThreshold == 50

Thresholds == {MinThreshold, DefaultThreshold}

BlockCategorySets == {AllNonSafe, DocBlockCategories}

\* Stored lists the classification runs against; each is a state the add
\* operations reach from empty lists (SpecPolicy).
ListConfigs ==
    { <<  <<>>, <<>>  >>,
      <<  <<Entry(<<"+", "5">>, "phone", "")>>, <<>>  >>,
      <<  <<>>, <<Entry(<<"5">>, "phone", "scam")>>  >>,
      <<  <<Entry(<<"k">>, "keyword", "")>>, <<Entry(<<"5">>, "phone", "")>>  >>,
      <<  <<Entry(<<"A">>, "email", "")>>, <<Entry(<<"k">>, "keyword", "")>>  >>,
      <<  <<Entry(<<"+", "5">>, "phone", "")>>, <<Entry(<<"5">>, "phone", "scam")>>  >>,
      <<  <<Entry(<<"5">>, "phone", "")>>, <<Entry(<<"5">>, "phone", "")>>  >>,
      <<  <<Entry(<<"+", "5">>, "phone", ""), Entry(<<"k">>, "keyword", "")>>,
          <<Entry(<<"5">>, "phone", "")>>  >> }

\* The policy in force for a user who has none stored: the settings the API
\* documentation shows for a user with empty lists.
DefaultPolicy ==
    [auto_block_spam |-> TRUE, auto_block_threshold |-> DefaultThreshold,
     block_categories |-> DocBlockCategories, whitelist |-> <<>>, blacklist |-> <<>>]

\* The Config Resolver's result for a user without a stored policy.
PolicyIsDefault ==
    /\ whitelist = DefaultPolicy.whitelist
    /\ blacklist = DefaultPolicy.blacklist
    /\ auto_block_spam = DefaultPolicy.auto_block_spam
    /\ auto_block_threshold = DefaultPolicy.auto_block_threshold
    /\ block_categories = DefaultPolicy.block_categories

Services == {"sms", "call"}

Callers == {"navigator", "settings"}

Numbers == {"", "Unknown", "5", "7"}

RequestSlots == {"r1", "r2"}

IdleRequest == [pc |-> "idle", content |-> <<>>, blocked |-> FALSE, seen |-> <<0, 0>>]

IdleHttp == [pc |-> "idle", owner |-> "none", retry |-> FALSE, pair |-> 0,
             refreshes |-> 0, sends |-> 0]

NoDelete == [id |-> 0, result |-> "none", screen |-> "none"]

NoCounts ==
    /\ total_messages_analyzed = 0
    /\ total_spam_blocked = 0

StoreEmpty ==
    /\ messages = <<>>
    /\ created = 0
    /\ createdBlocked = 0
    /\ cls = [r \in RequestSlots |-> IdleRequest]
    /\ fbCalls = <<>>
    /\ delResult = NoDelete

\* Logged out, nothing enabled, no listener registered.
ServicesOff ==
    /\ isAuthenticated = FALSE
    /\ enabledItem = [s \in Services |-> "null"]
    /\ isListening = [s \in Services |-> FALSE]
    /\ subscription = [s \in Services |-> FALSE]
    /\ nativeListeners = [s \in Services |-> 0]
    /\ startPc = [s \in Services |-> [c \in Callers |-> "idle"]]

\* Logged in with both detections enabled and started: one listener each.
ServicesOn ==
    /\ isAuthenticated = TRUE
    /\ enabledItem = [s \in Services |-> "true"]
    /\ isListening = [s \in Services |-> TRUE]
    /\ subscription = [s \in Services |-> TRUE]
    /\ nativeListeners = [s \in Services |-> 1]
    /\ startPc = [s \in Services |-> [c \in Callers |-> "idle"]]

\* No AuthProvider function running and no request in flight; the token store
\* holds the pair issued at login exactly when the user is logged in.
AuthQuiet ==
    /\ accessToken = (IF isAuthenticated THEN 1 ELSE 0)
    /\ refreshToken = accessToken
    /\ issued = accessToken
    /\ isLoading = FALSE
    /\ authPc = "idle"
    /\ checkOutcome = "none"
    /\ http = [r \in RequestSlots |-> IdleHttp]
    /\ refreshedOk = FALSE

NoCall ==
    /\ lastCheckedNumber = ""
    /\ lookups = [n \in Numbers |-> 0]
    /\ lookupsInFlight = [n \in Numbers |-> 0]
    /\ callHistory = {}

\* A logged-in user with SMS detection running, with a stored policy or with
\* none (the default is then in force); AsyncStorage has no 'sms_auto_block'
\* item yet and no request is in flight.
Init ==
    /\ policyStored \in BOOLEAN
    /\ \/ /\ policyStored
          /\ \E lists \in ListConfigs :
                /\ whitelist = lists[1]
                /\ blacklist = lists[2]
          /\ auto_block_spam \in BOOLEAN
          /\ auto_block_threshold \in Thresholds
          /\ block_categories \in BlockCategorySets
       \/ /\ ~policyStored
          /\ PolicyIsDefault
    /\ opResult = NoOp
    /\ smsAutoBlock = "null"
    /\ PipelineIdle
    /\ SmsIdle
    /\ cancelled = FALSE
    /\ NoCounts
    /\ StoreEmpty
    /\ ServicesOn
    /\ NoCall
    /\ AuthQuiet

\* Classification requests of one user against the stored policy.
Next ==
    \/ \E b \in BOOLEAN : SetAutoBlock(b)
    \/ \E c \in Contents, s \in Senders : HandleAnalyze(c, s)
    \/ \E c \in Contents, s \in Senders : IncomingSMS(c, s)
    \/ MatchOverride
    \/ RunPatterns
    \/ \E raw \in OracleOutputs : OracleAnswers(raw)
    \/ \E kind \in TransientFailures : OracleFails(kind)
    \/ Aggregate
    \/ SmsAnalysisReturned
    \/ \E ok \in BOOLEAN : SmsCheckAutoBlock(ok)
    \/ \E ok \in BOOLEAN : SmsStore(ok)
    \/ Finish

Spec == Init /\ [][Next]_vars

\* A user whose stored policy still holds the default values.
InitPolicy ==
    /\ policyStored = TRUE
    /\ PolicyIsDefault
    /\ opResult = NoOp
    /\ smsAutoBlock = "null"
    /\ PipelineIdle
    /\ SmsIdle
    /\ cancelled = FALSE
    /\ NoCounts
    /\ StoreEmpty
    /\ ServicesOff
    /\ NoCall
    /\ AuthQuiet

\* The whitelist and blacklist operations of one user.
NextPolicy ==
    \/ \E raw \in RawValues : WhitelistAdd(raw)
    \/ \E raw \in RawValues, reason \in Reasons : BlacklistAdd(raw, reason)
    \/ \E v \in StoredValues : WhitelistRemove(v)
    \/ \E v \in StoredValues : BlacklistRemove(v)

SpecPolicy == InitPolicy /\ [][NextPolicy]_vars

-----------------------------------------------------------------------------
(* The message store: concurrent classification requests, feedback, delete *)

\* Most Message records created, and most provideFeedback calls submitted.
MaxStored == 2
MaxFeedback == 2

\* The ids a screen can hold: those of the messages created so far and one
\* that was never the user's.
MessageIds == 1..(created + 1)

StoreContents == { <<>>, <<"h", "i">> }

FeedbackValues == {"correct", "incorrect", "unsure"}

\* messages with the record rec stored under id.
WithRecord(id, rec) ==
    [i \in DOMAIN messages \cup {id} |-> IF i = id THEN rec ELSE messages[i]]

\* messages without the record of id.
WithoutRecord(id) == [i \in DOMAIN messages \ {id} |-> messages[i]]

\* A classification request arrives in slot r: empty content is refused with
\* InvalidInput, otherwise the request resolves the user's data (policy and
\* counters as they are now) and goes on to classification.
ClsReceive(r, content) ==
    /\ cls[r].pc = "idle"
    /\ created + Cardinality({q \in RequestSlots : cls[q].pc = "received"}) < MaxStored
    /\ cls' = [cls EXCEPT ![r] =
                 IF IsEmptyContent(content)
                 THEN [IdleRequest EXCEPT !.pc = "InvalidInput"]
                 ELSE [pc |-> "received", content |-> content, blocked |-> FALSE,
                       seen |-> <<total_messages_analyzed, total_spam_blocked>>]]
    /\ UNCHANGED <<listVars, settingVars, counterVars, cancelled, smsAutoBlock,
                   pipeVars, smsVars, messages, created, createdBlocked, fbCalls,
                   delResult, svcVars, callVars, authVars>>

\* The request of slot r ends: with its classification done (blocked is the
\* Decision Aggregator's is_blocked) the Message is created and the counters
\* are updated in one atomic step; a refused request just returns.
ClsPersist(r, blocked) ==
    /\ cls[r].pc \in {"received", "InvalidInput"}
    /\ IF cls[r].pc = "received"
       THEN /\ messages' = WithRecord(created + 1,
                              [content |-> cls[r].content, is_blocked |-> blocked,
                               user_feedback |-> "none"])
            /\ created' = created + 1
            /\ createdBlocked' = IF blocked THEN createdBlocked + 1 ELSE createdBlocked
            /\ total_messages_analyzed' =
                  Increment(total_messages_analyzed, cls[r].seen[1])
            /\ total_spam_blocked' =
                  IF blocked THEN Increment(total_spam_blocked, cls[r].seen[2])
                  ELSE total_spam_blocked
       ELSE /\ blocked = FALSE
            /\ UNCHANGED <<messages, created, createdBlocked, counterVars>>
    /\ cls' = [cls EXCEPT ![r] = IdleRequest]
    /\ UNCHANGED <<listVars, settingVars, cancelled, smsAutoBlock, pipeVars, smsVars,
                   fbCalls, delResult, svcVars, callVars, authVars>>

\* MessageDetailScreen.handleFeedback: the call is issued at once, whatever
\* earlier calls are still awaited.
HandleFeedback(id, value) ==
    /\ Len(fbCalls) < MaxFeedback
    /\ fbCalls' = Append(fbCalls, [id |-> id, value |-> value, state |-> "inflight",
                                    screen |-> "none"])
    /\ UNCHANGED <<listVars, settingVars, counterVars, cancelled, smsAutoBlock,
                   pipeVars, smsVars, messages, created, createdBlocked, cls,
                   delResult, svcVars, callVars, authVars>>

\* The message id is known to the caller's user.
Known(ids, id) == id \in ids

\* handleFeedback after the await: the success alert, or the error logged.
FeedbackScreen(result) == IF result = "ok" THEN "successAlert" ELSE "errorLogged"

\* PATCH /messages/{id}/feedback is served for one of the calls in flight (in
\* whatever order the requests arrive): the value overwrites the stored one,
\* or NotFound.
ServeFeedback(i) ==
    /\ i \in 1..Len(fbCalls)
    /\ fbCalls[i].state = "inflight"
    /\ LET call == fbCalls[i]
           result == IF Known(DOMAIN messages, call.id) THEN "ok" ELSE "NotFound"
       IN /\ messages' = IF result = "ok" /\ call.id \in DOMAIN messages
                         THEN [messages EXCEPT ![call.id].user_feedback = call.value]
                         ELSE messages
          /\ fbCalls' = [fbCalls EXCEPT ![i].state = result,
                                        ![i].screen = FeedbackScreen(result)]
    /\ UNCHANGED <<listVars, settingVars, counterVars, cancelled, smsAutoBlock,
                   pipeVars, smsVars, created, createdBlocked, cls, delResult,
                   svcVars, callVars, authVars>>

\* A screen that leaves as if the message had been deleted.
DeleteScreenAlwaysBack(result) == "goBack"

\* handleDelete after the await: navigation.goBack(), or the error alert.
DeleteScreen(result) == IF result = "ok" THEN "goBack" ELSE "errorAlert"

\* MessageDetailScreen.handleDelete, confirmed by the user: DELETE
\* /messages/{id} removes the record, or NotFound.
HandleDelete(id) ==
    /\ LET result == IF Known(DOMAIN messages, id) THEN "ok" ELSE "NotFound"
       IN /\ messages' = IF result = "ok" THEN WithoutRecord(id) ELSE messages
          /\ delResult' = [id |-> id, result |-> result, screen |-> DeleteScreen(result)]
          /\ delResult' # delResult
    /\ UNCHANGED <<listVars, settingVars, counterVars, cancelled, smsAutoBlock,
                   pipeVars, smsVars, created, createdBlocked, cls, fbCalls,
                   svcVars, callVars, authVars>>

\* A user with no messages yet.
InitStore ==
    /\ policyStored = FALSE
    /\ PolicyIsDefault
    /\ opResult = NoOp
    /\ smsAutoBlock = "null"
    /\ PipelineIdle
    /\ SmsIdle
    /\ cancelled = FALSE
    /\ NoCounts
    /\ StoreEmpty
    /\ ServicesOff
    /\ NoCall
    /\ AuthQuiet

\* Concurrent classification requests and deletes of one user.
NextStore ==
    \/ \E r \in RequestSlots, c \in StoreContents : ClsReceive(r, c)
    \/ \E r \in RequestSlots, b \in BOOLEAN : ClsPersist(r, b)
    \/ \E id \in MessageIds : HandleDelete(id)

SpecStore == InitStore /\ [][NextStore]_vars

\* A user with one message, analysed and counted, and no feedback on it yet.
InitFeedback ==
    /\ policyStored = FALSE
    /\ PolicyIsDefault
    /\ opResult = NoOp
    /\ smsAutoBlock = "null"
    /\ PipelineIdle
    /\ SmsIdle
    /\ cancelled = FALSE
    /\ \E blocked \in BOOLEAN :
          /\ messages = <<[content |-> <<"h", "i">>, is_blocked |-> blocked,
                           user_feedback |-> "none"]>>
          /\ createdBlocked = (IF blocked THEN 1 ELSE 0)
          /\ total_spam_blocked = createdBlocked
    /\ created = 1
    /\ total_messages_analyzed = 1
    /\ cls = [r \in RequestSlots |-> IdleRequest]
    /\ fbCalls = <<>>
    /\ delResult = NoDelete
    /\ ServicesOff
    /\ NoCall
    /\ AuthQuiet

\* Feedback and delete calls from the message detail screen.
NextFeedback ==
    \/ \E id \in MessageIds, v \in FeedbackValues : HandleFeedback(id, v)
    \/ \E i \in 1..MaxFeedback : ServeFeedback(i)
    \/ \E id \in MessageIds : HandleDelete(id)

SpecFeedback == InitFeedback /\ [][NextFeedback]_vars

-----------------------------------------------------------------------------
(* The detection services: SMSDetectionService and CallDetectionService share
   one lifecycle.  startListening is called by the root navigator's effect and
   by setEnabled(true) from the settings screen; it suspends at
   `await this.isEnabled()` between its isListening check and the
   registration of the native listener. *)

\* Most native listeners registered for one service.
MaxListeners == 2

\* isEnabled: the stored item equals 'true'; false when the read throws.
IsEnabled(item, readOk) == readOk /\ item = "true"

\* stopListening acts only when a subscription is held: it removes that
\* listener, clears the subscription and isListening.
StoppedListening(s) == IF subscription[s] THEN FALSE ELSE isListening[s]

StoppedNative(s) ==
    IF subscription[s] THEN nativeListeners[s] - 1 ELSE nativeListeners[s]

\* The analysis call of handleIncomingSMS is in flight.
SmsAnalysisInFlight == smsPc = "analyzing"

\* stopListening of both services, as the navigator's effect and its cleanup
\* call it.
StopBoth ==
    /\ isListening' = [s \in Services |-> StoppedListening(s)]
    /\ subscription' = [s \in Services |-> FALSE]
    /\ nativeListeners' = [s \in Services |-> StoppedNative(s)]

\* isAuthenticated becomes true: the cleanup of the previous effect stops both
\* services, then the effect calls startListening of both, which run to their
\* first await.
Login ==
    /\ ~isAuthenticated
    /\ \A s \in Services : startPc[s]["navigator"] = "idle"
    /\ isAuthenticated' = TRUE
    /\ StopBoth
    /\ startPc' = [s \in Services |->
                     [startPc[s] EXCEPT !["navigator"] =
                         IF StoppedListening(s) THEN "idle" ELSE "awaitEnabled"]]
    /\ cancelled' = (cancelled \/ (subscription["sms"] /\ SmsAnalysisInFlight))
    /\ UNCHANGED <<listVars, settingVars, counterVars, smsAutoBlock, pipeVars, smsVars,
                   storeVars, callVars, authVars, enabledItem>>

\* isAuthenticated becomes false: the cleanup and the effect's else branch
\* stop both services.  Nothing is done about calls that are in flight.
Logout ==
    /\ isAuthenticated
    /\ isAuthenticated' = FALSE
    /\ StopBoth
    /\ cancelled' = (cancelled \/ SmsAnalysisInFlight)
    /\ UNCHANGED <<listVars, settingVars, counterVars, smsAutoBlock, pipeVars, smsVars,
                   storeVars, callVars, authVars, enabledItem, startPc>>

\* setEnabled from a settings toggle: the item is written, then
\* startListening runs to its first await, or stopListening runs.
SetEnabled(s, value) ==
    /\ isAuthenticated
    /\ startPc[s]["settings"] = "idle"
    /\ enabledItem' = [enabledItem EXCEPT ![s] = IF value THEN "true" ELSE "false"]
    /\ IF value
       THEN /\ startPc' = [startPc EXCEPT ![s]["settings"] =
                              IF isListening[s] THEN "idle" ELSE "awaitEnabled"]
            /\ UNCHANGED <<isListening, subscription, nativeListeners, cancelled>>
       ELSE /\ isListening' = [isListening EXCEPT ![s] = StoppedListening(s)]
            /\ subscription' = [subscription EXCEPT ![s] = FALSE]
            /\ nativeListeners' = [nativeListeners EXCEPT ![s] = StoppedNative(s)]
            /\ cancelled' = (cancelled \/ (s = "sms" /\ subscription[s]
                                              /\ SmsAnalysisInFlight))
            /\ UNCHANGED startPc
    /\ UNCHANGED <<listVars, settingVars, counterVars, smsAutoBlock, pipeVars, smsVars,
                   storeVars, callVars, authVars, isAuthenticated>>

\* The rest of startListening after the await: the native listener is added
\* and kept in this.subscription, isListening becomes true; when adding
\* throws, isListening becomes false.
Register(s, addOk) ==
    IF addOk
    THEN [listening |-> TRUE, sub |-> TRUE, native |-> nativeListeners[s] + 1]
    ELSE [listening |-> FALSE, sub |-> subscription[s], native |-> nativeListeners[s]]

\* AsyncStorage.getItem of the startListening call of caller c reads the item,
\* at some moment between the call and its resumption.
ReadEnabled(s, c, readOk) ==
    /\ startPc[s][c] = "awaitEnabled"
    /\ startPc' = [startPc EXCEPT ![s][c] =
                      IF IsEnabled(enabledItem[s], readOk) THEN "enabled" ELSE "disabled"]
    /\ UNCHANGED <<listVars, settingVars, counterVars, cancelled, smsAutoBlock, pipeVars,
                   smsVars, storeVars, callVars, authVars, isAuthenticated, enabledItem,
                   isListening, subscription, nativeListeners>>

\* `await this.isEnabled()` settles in the startListening call of caller c.
StartResume(s, c, addOk) ==
    /\ startPc[s][c] \in {"enabled", "disabled"}
    /\ startPc' = [startPc EXCEPT ![s][c] = "idle"]
    /\ IF startPc[s][c] = "enabled"
       THEN /\ addOk => nativeListeners[s] < MaxListeners
            /\ isListening' = [isListening EXCEPT ![s] = Register(s, addOk).listening]
            /\ subscription' = [subscription EXCEPT ![s] = Register(s, addOk).sub]
            /\ nativeListeners' =
                 [nativeListeners EXCEPT ![s] = Register(s, addOk).native]
       ELSE UNCHANGED <<isListening, subscription, nativeListeners>>
    /\ UNCHANGED <<listVars, settingVars, counterVars, cancelled, smsAutoBlock, pipeVars,
                   smsVars, storeVars, callVars, authVars, isAuthenticated, enabledItem>>

\* The app starts logged out, nothing stored, no service running.
InitServices ==
    /\ policyStored = FALSE
    /\ PolicyIsDefault
    /\ opResult = NoOp
    /\ smsAutoBlock = "null"
    /\ PipelineIdle
    /\ SmsIdle
    /\ cancelled = FALSE
    /\ NoCounts
    /\ StoreEmpty
    /\ ServicesOff
    /\ NoCall
    /\ AuthQuiet

\* Logins, logouts and settings toggles, and the suspended startListening
\* calls resuming in any order.
NextServices ==
    \/ Login
    \/ Logout
    \/ \E s \in Services, value \in BOOLEAN : SetEnabled(s, value)
    \/ \E s \in Services, c \in Callers, readOk \in BOOLEAN : ReadEnabled(s, c, readOk)
    \/ \E s \in Services, c \in Callers, addOk \in BOOLEAN : StartResume(s, c, addOk)

SpecServices == InitServices /\ [][NextServices]_vars

\* A logged-in user without a stored policy, SMS detection running.
InitCancel ==
    /\ policyStored = FALSE
    /\ PolicyIsDefault
    /\ opResult = NoOp
    /\ smsAutoBlock = "null"
    /\ PipelineIdle
    /\ SmsIdle
    /\ cancelled = FALSE
    /\ NoCounts
    /\ StoreEmpty
    /\ ServicesOn
    /\ NoCall
    /\ AuthQuiet

\* Classification requests, with a logout or the SMS detection being switched
\* off at any moment.
NextCancel ==
    \/ Next
    \/ Logout
    \/ \E s \in {"sms"} : SetEnabled(s, FALSE)

SpecCancel == InitCancel /\ [][NextCancel]_vars

-----------------------------------------------------------------------------
(* CallDetectionService: call events and caller lookups *)

\* Most lookups started for one number within one call, and most in flight.
MaxLookups == 2

CallEvents == {"Incoming", "Offhook", "Disconnected"}

\* Numbers that are never looked up.
Unchecked(phoneNumber) == phoneNumber = "" \/ phoneNumber = "Unknown"

\* checkIncomingCall: a number equal to lastCheckedNumber is skipped; any other
\* number becomes lastCheckedNumber and, unless empty or 'Unknown', is looked
\* up with CallerAPI.lookupNumber.
CheckIncomingCall(phoneNumber) ==
    IF lastCheckedNumber = phoneNumber
    THEN UNCHANGED callVars
    ELSE /\ lastCheckedNumber' = phoneNumber
         /\ IF Unchecked(phoneNumber)
            THEN UNCHANGED <<lookups, lookupsInFlight>>
            ELSE /\ lookups[phoneNumber] < MaxLookups
                 /\ lookupsInFlight[phoneNumber] < MaxLookups
                 /\ lookups' = [lookups EXCEPT ![phoneNumber] = @ + 1]
                 /\ lookupsInFlight' = [lookupsInFlight EXCEPT ![phoneNumber] = @ + 1]
         /\ UNCHANGED callHistory

\* handleCallEvent, called by the native call detector: 'Incoming' checks the
\* number, 'Disconnected' ends the call and clears lastCheckedNumber, every
\* other event is ignored.  lookups counts per call and starts again at the
\* end of the call.
CallEvent(event, phoneNumber) ==
    /\ nativeListeners["call"] > 0
    /\ CASE event = "Incoming" -> CheckIncomingCall(phoneNumber)
         [] event = "Disconnected" ->
              /\ lastCheckedNumber' = ""
              /\ lookups' = [n \in Numbers |-> 0]
              /\ UNCHANGED <<lookupsInFlight, callHistory>>
         [] OTHER -> UNCHANGED callVars
    /\ UNCHANGED <<listVars, settingVars, counterVars, cancelled, smsAutoBlock, pipeVars,
                   smsVars, storeVars, svcVars, authVars>>

\* CallerAPI.lookupNumber settles: the result is stored in the call history,
\* a failure is logged.
LookupDone(phoneNumber, ok) ==
    /\ lookupsInFlight[phoneNumber] > 0
    /\ lookupsInFlight' = [lookupsInFlight EXCEPT ![phoneNumber] = @ - 1]
    /\ callHistory' = IF ok THEN callHistory \cup {phoneNumber} ELSE callHistory
    /\ UNCHANGED <<lastCheckedNumber, lookups>>
    /\ UNCHANGED <<listVars, settingVars, counterVars, cancelled, smsAutoBlock, pipeVars,
                   smsVars, storeVars, svcVars, authVars>>

\* A logged-in user with call detection running, no call in progress.
InitCall ==
    /\ policyStored = FALSE
    /\ PolicyIsDefault
    /\ opResult = NoOp
    /\ smsAutoBlock = "null"
    /\ PipelineIdle
    /\ SmsIdle
    /\ cancelled = FALSE
    /\ NoCounts
    /\ StoreEmpty
    /\ ServicesOn
    /\ NoCall
    /\ AuthQuiet

\* Call events in any order, and lookups settling.
NextCall ==
    \/ \E event \in CallEvents, n \in Numbers : CallEvent(event, n)
    \/ \E n \in Numbers, ok \in BOOLEAN : LookupDone(n, ok)

SpecCall == InitCall /\ [][NextCall]_vars

\* Incoming SMS of a logged-in user, with analysis calls that fail in
\* transport.
NextSms ==
    \/ Next
    \/ \E error \in TransportFailures : SmsAnalysisFailed(error)

SpecSms == InitCancel /\ [][NextSms]_vars

-----------------------------------------------------------------------------
(* The API client (axios instance `api` with its response interceptor, the
   TokenManager over SecureStore) and the AuthProvider functions.  A token
   pair is a number, 0 is an absent item.  Every SecureStore call and every
   HTTP exchange is one step. *)

\* Most token pairs the server issues, and most times one request is sent.
MaxTokens == 3
MaxSends == 3

\* 500 stands for every failure other than 401, a missing response included.
Statuses == {200, 401, 500}

\* The slot of the request an AuthProvider function is waiting for.
AuthSlot == "r1"

\* The slots of the requests the screens issue while an AuthProvider function
\* may run.
ScreenSlots == RequestSlots \ {AuthSlot}

Settled(r) == http[r].pc \in {"ok", "rejected"}

\* An interceptor that refreshes on every 401.
ShouldRefreshAlways(status, retry) == status = 401

\* The response interceptor refreshes on a 401 of a request not yet retried.
ShouldRefresh(status, retry) == status = 401 /\ ~retry

\* A delete that leaves the item in the store.
KeepItem(item) == item

\* SecureStore.deleteItemAsync.
DeleteItem(item) == 0

\* api.<method>(...): a request is sent for owner.
Sent(owner) == [pc |-> "sent", owner |-> owner, retry |-> FALSE, pair |-> 0,
                refreshes |-> 0, sends |-> 1]

httpRest == <<listVars, settingVars, counterVars, cancelled, smsAutoBlock, pipeVars,
              smsVars, storeVars, svcVars, callVars>>

\* A screen of the logged-in user calls the API.
ApiCall(r) ==
    /\ isAuthenticated
    /\ http[r].pc = "idle"
    /\ http' = [http EXCEPT ![r] = Sent("screen")]
    /\ refreshedOk' = (refreshedOk /\ \E q \in RequestSlots : http[q].pc # "idle")
    /\ UNCHANGED <<accessToken, refreshToken, issued, isLoading, authPc, checkOutcome>>
    /\ UNCHANGED httpRest

\* The answer arrives: 200 resolves; a 401 on a request not yet retried marks
\* it _retry and starts the refresh; everything else rejects with the error.
Respond(r, status) ==
    /\ http[r].pc = "sent"
    /\ http' = [http EXCEPT ![r] =
                  IF status = 200 THEN [@ EXCEPT !.pc = "ok"]
                  ELSE IF ShouldRefresh(status, @.retry)
                       THEN [@ EXCEPT !.pc = "getRefresh", !.retry = TRUE]
                       ELSE [@ EXCEPT !.pc = "rejected"]]
    /\ UNCHANGED <<accessToken, refreshToken, issued, isLoading, authPc, checkOutcome,
                   refreshedOk>>
    /\ UNCHANGED httpRest

\* await TokenManager.getRefreshToken(): with a token the refresh is posted,
\* without one the original error is rejected.
ReadRefreshToken(r) ==
    /\ http[r].pc = "getRefresh"
    /\ http[r].refreshes < MaxSends
    /\ http' = [http EXCEPT ![r] =
                  IF refreshToken # 0
                  THEN [@ EXCEPT !.pc = "refreshing", !.refreshes = @ + 1]
                  ELSE [@ EXCEPT !.pc = "rejected"]]
    /\ UNCHANGED <<accessToken, refreshToken, issued, isLoading, authPc, checkOutcome,
                   refreshedOk>>
    /\ UNCHANGED httpRest

\* await axios.post('/auth/refresh') settles: a new pair, or the catch block.
RefreshAnswers(r, ok) ==
    /\ http[r].pc = "refreshing"
    /\ IF ok
       THEN /\ issued < MaxTokens
            /\ issued' = issued + 1
            /\ http' = [http EXCEPT ![r] = [@ EXCEPT !.pc = "setAccess",
                                                     !.pair = issued + 1]]
            /\ refreshedOk' = TRUE
       ELSE /\ http' = [http EXCEPT ![r] = [@ EXCEPT !.pc = "clearAccess"]]
            /\ UNCHANGED <<issued, refreshedOk>>
    /\ UNCHANGED <<accessToken, refreshToken, isLoading, authPc, checkOutcome>>
    /\ UNCHANGED httpRest

\* TokenManager.setTokens, first item.
SetAccess(r) ==
    /\ http[r].pc = "setAccess"
    /\ accessToken' = http[r].pair
    /\ http' = [http EXCEPT ![r] = [@ EXCEPT !.pc = "setRefresh"]]
    /\ UNCHANGED <<refreshToken, issued, isLoading, authPc, checkOutcome, refreshedOk>>
    /\ UNCHANGED httpRest

\* TokenManager.setTokens, second item; then the original request is sent
\* again: return api(originalRequest).
SetRefresh(r) ==
    /\ http[r].pc = "setRefresh"
    /\ http[r].sends < MaxSends
    /\ refreshToken' = http[r].pair
    /\ http' = [http EXCEPT ![r] = [@ EXCEPT !.pc = "sent", !.sends = @ + 1]]
    /\ UNCHANGED <<accessToken, issued, isLoading, authPc, checkOutcome, refreshedOk>>
    /\ UNCHANGED httpRest

\* The catch block: TokenManager.clearTokens, first item.
ClearAccess(r) ==
    /\ http[r].pc = "clearAccess"
    /\ accessToken' = DeleteItem(accessToken)
    /\ http' = [http EXCEPT ![r] = [@ EXCEPT !.pc = "clearRefresh"]]
    /\ UNCHANGED <<refreshToken, issued, isLoading, authPc, checkOutcome, refreshedOk>>
    /\ UNCHANGED httpRest

\* TokenManager.clearTokens, second item; then the original error is rejected.
ClearRefresh(r) ==
    /\ http[r].pc = "clearRefresh"
    /\ refreshToken' = DeleteItem(refreshToken)
    /\ http' = [http EXCEPT ![r] = [@ EXCEPT !.pc = "rejected"]]
    /\ UNCHANGED <<accessToken, issued, isLoading, authPc, checkOutcome, refreshedOk>>
    /\ UNCHANGED httpRest

\* The screen has its answer or its error.
ScreenSettles(r) ==
    /\ http[r].owner = "screen"
    /\ Settled(r)
    /\ http' = [http EXCEPT ![r] = IdleHttp]
    /\ UNCHANGED <<accessToken, refreshToken, issued, isLoading, authPc, checkOutcome,
                   refreshedOk>>
    /\ UNCHANGED httpRest

\* The steps of the request in slot r that do not wait for the user.
HttpStep(r) ==
    \/ \E status \in Statuses : Respond(r, status)
    \/ ReadRefreshToken(r)
    \/ \E ok \in BOOLEAN : RefreshAnswers(r, ok)
    \/ SetAccess(r)
    \/ SetRefresh(r)
    \/ ClearAccess(r)
    \/ ClearRefresh(r)

authRest == <<listVars, settingVars, counterVars, cancelled, smsAutoBlock, pipeVars,
              smsVars, storeVars, callVars, enabledItem, isListening, subscription,
              nativeListeners, startPc>>

\* checkAuthState: await TokenManager.getAccessToken(); with a token the
\* profile is requested, without one only the finally block runs.
CheckToken ==
    /\ authPc = "checkStart"
    /\ IF accessToken # 0
       THEN /\ http' = [http EXCEPT ![AuthSlot] = Sent("getProfile")]
            /\ authPc' = "checkProfile"
            /\ UNCHANGED <<isLoading, checkOutcome>>
       ELSE /\ isLoading' = FALSE
            /\ authPc' = "idle"
            /\ checkOutcome' = "noToken"
            /\ UNCHANGED http
    /\ UNCHANGED <<accessToken, refreshToken, issued, refreshedOk, isAuthenticated>>
    /\ UNCHANGED authRest

\* await UserAPI.getProfile() settles: setUser and the finally block, or the
\* catch block.
CheckProfileDone ==
    /\ authPc = "checkProfile"
    /\ Settled(AuthSlot)
    /\ http' = [http EXCEPT ![AuthSlot] = IdleHttp]
    /\ IF http[AuthSlot].pc = "ok"
       THEN /\ isAuthenticated' = TRUE
            /\ isLoading' = FALSE
            /\ authPc' = "idle"
            /\ checkOutcome' = "profile"
       ELSE /\ authPc' = "checkClearAccess"
            /\ UNCHANGED <<isAuthenticated, isLoading, checkOutcome>>
    /\ UNCHANGED <<accessToken, refreshToken, issued, refreshedOk>>
    /\ UNCHANGED authRest

\* The catch block of checkAuthState: clearTokens, first item.
CheckClearAccess ==
    /\ authPc = "checkClearAccess"
    /\ accessToken' = DeleteItem(accessToken)
    /\ authPc' = "checkClearRefresh"
    /\ UNCHANGED <<refreshToken, issued, isLoading, checkOutcome, http, refreshedOk,
                   isAuthenticated>>
    /\ UNCHANGED authRest

\* clearTokens, second item, then the finally block.
CheckClearRefresh ==
    /\ authPc = "checkClearRefresh"
    /\ refreshToken' = DeleteItem(refreshToken)
    /\ isLoading' = FALSE
    /\ authPc' = "idle"
    /\ checkOutcome' = "failed"
    /\ UNCHANGED <<accessToken, issued, http, refreshedOk, isAuthenticated>>
    /\ UNCHANGED authRest

\* login (register is the same): await AuthAPI.login(...).
LoginStart ==
    /\ ~isLoading /\ ~isAuthenticated
    /\ authPc = "idle"
    /\ http[AuthSlot].pc = "idle"
    /\ http' = [http EXCEPT ![AuthSlot] = Sent("login")]
    /\ authPc' = "loginPost"
    /\ UNCHANGED <<accessToken, refreshToken, issued, isLoading, checkOutcome,
                   refreshedOk, isAuthenticated>>
    /\ UNCHANGED authRest

\* AuthAPI.login settles: the response carries a new pair, or login throws.
LoginDone ==
    /\ authPc = "loginPost"
    /\ Settled(AuthSlot)
    /\ IF http[AuthSlot].pc = "ok"
       THEN /\ issued < MaxTokens
            /\ issued' = issued + 1
            /\ http' = [http EXCEPT ![AuthSlot] = [@ EXCEPT !.pair = issued + 1]]
            /\ authPc' = "loginSetAccess"
       ELSE /\ http' = [http EXCEPT ![AuthSlot] = IdleHttp]
            /\ authPc' = "idle"
            /\ UNCHANGED issued
    /\ UNCHANGED <<accessToken, refreshToken, isLoading, checkOutcome, refreshedOk,
                   isAuthenticated>>
    /\ UNCHANGED authRest

\* login: TokenManager.setTokens, first item.
LoginSetAccess ==
    /\ authPc = "loginSetAccess"
    /\ accessToken' = http[AuthSlot].pair
    /\ authPc' = "loginSetRefresh"
    /\ UNCHANGED <<refreshToken, issued, isLoading, checkOutcome, http, refreshedOk,
                   isAuthenticated>>
    /\ UNCHANGED authRest

\* login: setTokens, second item, then setUser(response.user).
LoginSetRefresh ==
    /\ authPc = "loginSetRefresh"
    /\ refreshToken' = http[AuthSlot].pair
    /\ isAuthenticated' = TRUE
    /\ http' = [http EXCEPT ![AuthSlot] = IdleHttp]
    /\ authPc' = "idle"
    /\ UNCHANGED <<accessToken, issued, isLoading, checkOutcome, refreshedOk>>
    /\ UNCHANGED authRest

\* logout: await AuthAPI.logout(), which posts /auth/logout.
LogoutStart ==
    /\ isAuthenticated
    /\ authPc = "idle"
    /\ http[AuthSlot].pc = "idle"
    /\ http' = [http EXCEPT ![AuthSlot] = Sent("logout")]
    /\ authPc' = "logoutPost"
    /\ UNCHANGED <<accessToken, refreshToken, issued, isLoading, checkOutcome,
                   refreshedOk, isAuthenticated>>
    /\ UNCHANGED authRest

\* The post settles: AuthAPI.logout goes on to its own clearTokens, or it
\* throws and logout ignores the error.
LogoutPostDone ==
    /\ authPc = "logoutPost"
    /\ Settled(AuthSlot)
    /\ http' = [http EXCEPT ![AuthSlot] = IdleHttp]
    /\ authPc' = IF http[AuthSlot].pc = "ok" THEN "apiClearAccess" ELSE "clearAccess"
    /\ UNCHANGED <<accessToken, refreshToken, issued, isLoading, checkOutcome,
                   refreshedOk, isAuthenticated>>
    /\ UNCHANGED authRest

\* clearTokens of AuthAPI.logout and then of logout, one item at a time.
LogoutClear ==
    /\ authPc \in {"apiClearAccess", "apiClearRefresh", "clearAccess", "clearRefresh"}
    /\ IF authPc \in {"apiClearAccess", "clearAccess"}
       THEN /\ accessToken' = DeleteItem(accessToken)
            /\ UNCHANGED refreshToken
       ELSE /\ refreshToken' = DeleteItem(refreshToken)
            /\ UNCHANGED accessToken
    /\ authPc' = CASE authPc = "apiClearAccess" -> "apiClearRefresh"
                   [] authPc = "apiClearRefresh" -> "clearAccess"
                   [] authPc = "clearAccess" -> "clearRefresh"
                   [] OTHER -> "setUser"
    /\ UNCHANGED <<issued, isLoading, checkOutcome, http, refreshedOk, isAuthenticated>>
    /\ UNCHANGED authRest

\* logout resumes after its clearTokens: setUser(null).
LogoutSetUser ==
    /\ authPc = "setUser"
    /\ isAuthenticated' = FALSE
    /\ authPc' = "idle"
    /\ UNCHANGED <<accessToken, refreshToken, issued, isLoading, checkOutcome, http,
                   refreshedOk>>
    /\ UNCHANGED authRest

\* The steps of the AuthProvider functions that do not wait for the user.
AuthStep ==
    \/ CheckToken
    \/ CheckProfileDone
    \/ CheckClearAccess
    \/ CheckClearRefresh
    \/ LoginDone
    \/ LoginSetAccess
    \/ LoginSetRefresh
    \/ LogoutPostDone
    \/ LogoutClear
    \/ LogoutSetUser

\* AuthProvider mounts: isLoading, no user, checkAuthState about to run; the
\* token store is empty or holds the pair of an earlier session.
InitAuth ==
    /\ policyStored = FALSE
    /\ PolicyIsDefault
    /\ opResult = NoOp
    /\ smsAutoBlock = "null"
    /\ PipelineIdle
    /\ SmsIdle
    /\ cancelled = FALSE
    /\ NoCounts
    /\ StoreEmpty
    /\ ServicesOff
    /\ NoCall
    /\ accessToken \in {0, 1}
    /\ refreshToken = accessToken
    /\ issued = accessToken
    /\ isLoading = TRUE
    /\ authPc = "checkStart"
    /\ checkOutcome = "none"
    /\ http = [r \in RequestSlots |-> IdleHttp]
    /\ refreshedOk = FALSE

\* The AuthProvider functions, and requests of the screens beside them.
NextAuth ==
    \/ AuthStep
    \/ LoginStart
    \/ LogoutStart
    \/ \E r \in ScreenSlots : ApiCall(r)
    \/ \E r \in RequestSlots : HttpStep(r)
    \/ \E r \in ScreenSlots : ScreenSettles(r)

SpecAuth == InitAuth /\ [][NextAuth]_vars

\* Every HTTP exchange ends (the axios timeout) and every SecureStore call
\* returns; only the user's own actions may never happen.
SpecAuthLive ==
    /\ SpecAuth
    /\ WF_vars(AuthStep)
    /\ \A r \in RequestSlots : WF_vars(HttpStep(r))

\* A logged-in user whose screens issue requests concurrently.
InitRefresh ==
    /\ policyStored = FALSE
    /\ PolicyIsDefault
    /\ opResult = NoOp
    /\ smsAutoBlock = "null"
    /\ PipelineIdle
    /\ SmsIdle
    /\ cancelled = FALSE
    /\ NoCounts
    /\ StoreEmpty
    /\ ServicesOn
    /\ NoCall
    /\ AuthQuiet

NextRefresh ==
    \/ \E r \in RequestSlots : ApiCall(r)
    \/ \E r \in RequestSlots : HttpStep(r)
    \/ \E r \in RequestSlots : ScreenSettles(r)

SpecRefresh == InitRefresh /\ [][NextRefresh]_vars

-----------------------------------------------------------------------------
(* Properties *)

Stored == message # <<>>

Verdict == message[1].analysis

\* The auto-block policy gate of the Decision Aggregator applied to a verdict.
PolicyGate(a) ==
    /\ a.is_spam
    /\ auto_block_spam
    /\ a.confidence >= auto_block_threshold
    /\ a.category \in block_categories

SenderWhitelisted == IdentityMatch(whitelist, req.sender)

SenderBlacklisted == IdentityMatch(blacklist, req.sender)

\* C1: for a message not settled by an override, the recorded blocked flag --
\* Message.is_blocked and the blocked field of the stored DetectedSMS -- is
\* true exactly when is_spam AND auto_block_spam AND confidence >=
\* auto_block_threshold AND category in block_categories.
C1_BlockedIffPolicyGate ==
    /\ Stored /\ hit = "NoMatch" => (message[1].is_blocked <=> PolicyGate(Verdict))
    /\ smsHistory # <<>> /\ hit = "NoMatch" =>
          (smsHistory[1].blocked <=> PolicyGate(smsHistory[1].analysis.analysis))

\* C2: a message whose sender matches a whitelist identity entry has
\* is_spam=false and is not blocked, whatever its content: is_blocked=false on
\* the Message and blocked=false on the DetectedSMS built and stored for it.
C2_WhitelistedNeverSpam ==
    SenderWhitelisted =>
        /\ Stored => ~Verdict.is_spam /\ ~message[1].is_blocked
        /\ detectedSMS # <<>> => ~detectedSMS[1].blocked
        /\ smsHistory # <<>> => ~smsHistory[1].blocked
        /\ ~notified

\* C2 witness: an SMS with confidently spam content from a whitelisted sender
\* was stored while SMS auto-block is switched on.
C2_Witness ==
    /\ SenderWhitelisted
    /\ req.source = "sms_auto"
    /\ IsConfident(PatternClassify(req.content))
    /\ smsAutoBlock = "true"
    /\ smsHistory # <<>>
    /\ smsPc = "finished"

\* C3: a message whose sender matches a blacklist identity entry has
\* is_spam=true and is recorded as blocked (Message.is_blocked and the stored
\* DetectedSMS), independently of every auto-block setting.
C3_BlacklistedAlwaysBlocked ==
    SenderBlacklisted =>
        /\ Stored => Verdict.is_spam /\ message[1].is_blocked
        /\ smsHistory # <<>> => smsHistory[1].blocked

\* C4: when the Pattern Classifier reports confidence >= 0.9, and when an
\* override settled the request, the oracle is never called, and the confident
\* pattern result is the stored verdict.
C4_ConfidentSkipsOracle ==
    /\ patternResult # <<>> /\ patternResult[1].confidence >= ConfidentThreshold =>
          /\ oracleCalls = 0
          /\ pc # "oracle"
          /\ Stored => Verdict = patternResult[1]
    /\ hit \in {"WhitelistHit", "BlacklistHit"} =>
          /\ oracleCalls = 0
          /\ pc # "oracle"

\* C4 witness: a request answered from a pattern result of confidence 0.9.
C4_Witness ==
    /\ pc = "done"
    /\ Stored
    /\ patternResult # <<>>
    /\ patternResult[1].confidence = ConfidentThreshold

\* C5: every SpamAnalysis the pipeline produces satisfies
\* recommended_action = block => risk_level in {high, critical}.
BlockOnlyAtHighRisk(a) ==
    a.recommended_action = "block" => a.risk_level \in {"high", "critical"}

C5_BlockImpliesHighRisk ==
    /\ patternResult # <<>> => BlockOnlyAtHighRisk(patternResult[1])
    /\ candidate # <<>> => BlockOnlyAtHighRisk(candidate[1])
    /\ Stored => BlockOnlyAtHighRisk(Verdict)

NoLocalMatch == patternResult # <<>> /\ patternResult[1].detected_patterns = <<>>

Complete(a) ==
    /\ SchemaValid(a)
    /\ a.explanation # ""

\* C6: when the oracle phase ends in a terminal failure for a message with no
\* local pattern match, the request still returns a complete verdict, with
\* confidence strictly below auto_block_threshold and is_blocked=false.
C6_FailOpenNonBlocking ==
    verdictPath = "failopen" /\ NoLocalMatch =>
        /\ pc \in {"aggregate", "done"}
        /\ candidate # <<>>
        /\ candidate[1].confidence < auto_block_threshold
        /\ pc = "done" =>
              /\ response = "ok"
              /\ Stored
              /\ Complete(Verdict)
              /\ Verdict.confidence < auto_block_threshold
              /\ ~message[1].is_blocked

\* C6 witness: two oracle failures on a message no detector fired on, answered.
C6_Witness ==
    /\ verdictPath = "failopen"
    /\ NoLocalMatch
    /\ oracleFailures = 2
    /\ pc = "done"
    /\ response = "ok"

\* C7: the oracle is called at most twice for one classification, and a
\* second failure ends the oracle phase.
C7_AtMostTwoOracleCalls ==
    /\ oracleCalls <= 2
    /\ oracleFailures >= 2 => pc # "oracle"

\* C7 witness: a request that was answered after two failed oracle calls.
C7_Witness ==
    /\ oracleCalls = 2
    /\ oracleFailures = 2
    /\ pc = "done"

Matched == hit # "none"

C9_NoValueInBothLists == Values(whitelist) \cap Values(blacklist) = {}

NoDuplicateValues(list) ==
    \A i, j \in 1..Len(list) : list[i].value = list[j].value => i = j

IsAdd(op) == op \in {"addToWhitelist", "addToBlacklist"}

\* The step took an add of a present value or a remove of an absent one.
RefusedStep ==
    \/ /\ opResult'.op = "addToWhitelist" /\ HasValue(whitelist, opResult'.value)
    \/ /\ opResult'.op = "addToBlacklist" /\ HasValue(blacklist, opResult'.value)
    \/ /\ opResult'.op = "removeFromWhitelist" /\ ~HasValue(whitelist, opResult'.value)
    \/ /\ opResult'.op = "removeFromBlacklist" /\ ~HasValue(blacklist, opResult'.value)

\* C10: adding a value already in the same list fails with DuplicateEntry,
\* removing an absent value fails with NotFound, both leave the lists as they
\* were, and a list never holds two entries with the same value.
C10_DuplicateAndNotFound ==
    /\ [](NoDuplicateValues(whitelist) /\ NoDuplicateValues(blacklist))
    /\ [][ (opResult'.value # <<>> /\ RefusedStep) =>
              /\ opResult'.result = (IF IsAdd(opResult'.op)
                                     THEN "DuplicateEntry" ELSE "NotFound")
              /\ whitelist' = whitelist
              /\ blacklist' = blacklist ]_vars
    /\ [][ opResult'.result \in {"DuplicateEntry", "NotFound"} =>
              whitelist' = whitelist /\ blacklist' = blacklist ]_vars

\* C10 witness: a refused duplicate add, with the value held once.
C10_Witness ==
    /\ opResult.op = "addToBlacklist"
    /\ opResult.result = "DuplicateEntry"
    /\ HasValue(blacklist, opResult.value)
    /\ Len(blacklist) = MaxEntries

\* A request whose content is empty: typed in the Analyze screen or the body of
\* an incoming SMS.
EmptyRequest == pc # "idle" /\ req.content = <<>>

\* C14: a classification request with empty content never creates a Message
\* or a detected-SMS history entry and never changes the counters; it ends with
\* an error for that request alone: InvalidInput from the classification call
\* for an incoming SMS, the error alert of the Analyze screen for typed input.
C14_EmptyContentNoRecord ==
    /\ [](EmptyRequest =>
            /\ message = <<>>
            /\ detectedSMS = <<>>
            /\ smsHistory = <<>>
            /\ ~notified
            /\ pc = "done" =>
                  response = (IF req.source = "none"
                              THEN "EnterMessageAlert" ELSE "InvalidInput"))
    /\ [][EmptyRequest =>
            /\ total_messages_analyzed' = total_messages_analyzed
            /\ total_spam_blocked' = total_spam_blocked]_vars

\* C14 witness: an incoming SMS with an empty body was handled to its end,
\* after an earlier message had been recorded.
C14_Witness ==
    /\ req.content = <<>>
    /\ req.source = "sms_auto"
    /\ smsPc = "finished"
    /\ response = "InvalidInput"
    /\ total_messages_analyzed = 1

\* C16: for a user with no stored policy the policy in force is
\* auto_block_spam=true, auto_block_threshold=0.8, empty lists and
\* block_categories = every category except safe, so that a spam verdict of
\* any non-safe category with confidence >= 0.8 is blocked.
C16_DefaultPolicy ==
    ~policyStored =>
        /\ auto_block_spam
        /\ auto_block_threshold = DefaultThreshold
        /\ whitelist = <<>>
        /\ blacklist = <<>>
        /\ block_categories = AllNonSafe
        /\ (Stored /\ Verdict.is_spam /\ Verdict.category # "safe"
               /\ Verdict.confidence >= DefaultThreshold) => message[1].is_blocked

\* The source values of the data model.
Sources == {"manual", "sms", "api", "bulk"}

\* C17: every classification request the client issues, and every Message
\* stored, carries a source from {manual, sms, api, bulk}.
C17_SourceInClosedSet ==
    /\ req.source # "none" => req.source \in Sources
    /\ Stored => message[1].source \in Sources

BlockedRecords == {id \in DOMAIN messages : messages[id].is_blocked}

\* C11: under every interleaving of concurrent classification requests,
\* total_messages_analyzed equals the number of Message records created and
\* total_spam_blocked the number of those created with is_blocked=true; no
\* record exists without its counter update.
C11_CountersMatchRecords ==
    /\ total_messages_analyzed = created
    /\ total_spam_blocked = createdBlocked
    /\ DOMAIN messages \subseteq 1..total_messages_analyzed
    /\ Cardinality(BlockedRecords) <= total_spam_blocked

\* C11 witness: a record was created and counted while another request, which
\* had read the counters before that, is still in flight.
C11_Witness ==
    /\ created = 1
    /\ total_messages_analyzed = 1
    /\ total_spam_blocked = 1
    /\ \E r \in RequestSlots : cls[r].pc = "received" /\ cls[r].seen = <<0, 0>>

CallsOn(id) == {i \in 1..Len(fbCalls) : fbCalls[i].id = id}

\* The value of the provideFeedback call the user submitted last for id.
LastSubmitted(id) ==
    fbCalls[CHOOSE i \in CallsOn(id) : \A j \in CallsOn(id) : j <= i].value

FeedbackSettled == \A i \in 1..Len(fbCalls) : fbCalls[i].state # "inflight"

\* C12: for any sequence of provideFeedback calls on one message, also calls
\* issued while an earlier one is in flight, the stored user_feedback finally
\* equals the value submitted last, no call on an existing message is
\* refused, and the number of Message records does not change.
C12_LastFeedbackWins ==
    /\ [](FeedbackSettled =>
            \A id \in DOMAIN messages :
                (CallsOn(id) # {} /\ \A i \in CallsOn(id) : fbCalls[i].state = "ok")
                    => messages[id].user_feedback = LastSubmitted(id))
    /\ [][\A i \in 1..Len(fbCalls) :
             (fbCalls[i].state = "inflight" /\ fbCalls'[i].state # "inflight") =>
                 /\ fbCalls[i].id \in DOMAIN messages => fbCalls'[i].state = "ok"
                 /\ DOMAIN messages' = DOMAIN messages
                 /\ created' = created]_vars

\* C15: provideFeedback or delete on a message id unknown to the user (never
\* created, or deleted) fails with NotFound, the failure reaches the caller
\* (no success alert, the delete screen shows its error alert and stays), and
\* no message, feedback value or counter changes.
C15_UnknownMessageNotFound ==
    /\ [][\A i \in 1..Len(fbCalls) :
             (fbCalls[i].state = "inflight" /\ fbCalls'[i].state # "inflight"
                /\ fbCalls[i].id \notin DOMAIN messages) =>
                 /\ fbCalls'[i].state = "NotFound"
                 /\ fbCalls'[i].screen # "successAlert"
                 /\ messages' = messages
                 /\ UNCHANGED <<counterVars, created, createdBlocked>>]_vars
    /\ [][(delResult' # delResult /\ delResult'.id \notin DOMAIN messages) =>
             /\ delResult'.result = "NotFound"
             /\ delResult'.screen = "errorAlert"
             /\ messages' = messages
             /\ UNCHANGED <<counterVars, created, createdBlocked>>]_vars

\* C15 witness: a message that had feedback was deleted, and a feedback call
\* and a second delete on its id both came back NotFound.
C15_Witness ==
    /\ delResult = [id |-> 1, result |-> "NotFound", screen |-> "errorAlert"]
    /\ created >= 1
    /\ 1 \notin DOMAIN messages
    /\ \E i \in 1..Len(fbCalls) : fbCalls[i].id = 1 /\ fbCalls[i].state = "NotFound"
    /\ \E i \in 1..Len(fbCalls) : fbCalls[i].id = 1 /\ fbCalls[i].state = "ok"

\* C18: for each detection service at most one native listener is registered
\* at any time, under every interleaving of startListening, stopListening and
\* setEnabled.
C18_AtMostOneListener == \A s \in Services : nativeListeners[s] <= 1

ServiceCallsSettled == \A s \in Services, c \in Callers : startPc[s][c] = "idle"

\* C19: once the user is logged out and every pending service call has
\* settled, neither detection service is listening.
C19_LoggedOutNotListening ==
    (~isAuthenticated /\ ServiceCallsSettled) =>
        \A s \in Services : ~isListening[s] /\ nativeListeners[s] = 0

\* C13: once a classification is cancelled while its analysis call is in
\* flight (SMS detection stopped, or logout), nothing is written for that
\* message afterwards: no Message, no counter change, no detected-SMS history
\* entry.
C13_CancelledWritesNothing ==
    [][(cancelled /\ cancelled') =>
          /\ message' = message
          /\ smsHistory' = smsHistory
          /\ UNCHANGED counterVars]_vars

\* C20: within one call, between two Disconnected events,
\* CallerAPI.lookupNumber is invoked at most once for any given number, and a
\* number that is empty or 'Unknown' is never looked up.
C20_OneLookupPerNumber ==
    \A n \in Numbers :
        /\ lookups[n] <= 1
        /\ Unchecked(n) => lookups[n] = 0

\* C25: in every quiescent state (no setEnabled or startListening call
\* pending) a detection service is listening only if its persisted enabled
\* flag is 'true'.
C25_ListeningOnlyIfEnabled ==
    ServiceCallsSettled =>
        \A s \in Services :
            (isListening[s] \/ nativeListeners[s] > 0) => enabledItem[s] = "true"

\* The analysis call of handleIncomingSMS has failed.
SmsAnalysisHasFailed == smsPc = "finished" /\ detectedSMS = <<>>

\* C22: when analysing an incoming SMS fails, no detected-SMS history entry is
\* stored and no notification is shown for it, and the service stays
\* listening; every history entry stored carries a complete analysis returned
\* by the backend.
C22_FailedAnalysisStoresNothing ==
    /\ [](SmsAnalysisHasFailed => smsHistory = <<>> /\ ~notified)
    /\ [](smsHistory # <<>> =>
            /\ Stored
            /\ smsHistory[1].analysis = message[1]
            /\ Complete(smsHistory[1].analysis.analysis))
    /\ [][smsPc = "analyzing" => UNCHANGED <<isListening, subscription, nativeListeners>>]_vars

\* C22 witness: the backend stored the Message and answered, the answer was
\* lost, and handleIncomingSMS ended in its catch block with the listener
\* still registered.
C22_Witness ==
    /\ SmsAnalysisHasFailed
    /\ req.content # <<>>
    /\ response = "ok"
    /\ Stored
    /\ nativeListeners["sms"] = 1

TokensRemoved == accessToken = 0 /\ refreshToken = 0

\* C23: logout always ends with both stored tokens removed and user = null,
\* whether the server-side logout call succeeds, fails or is answered with 401.
C23_LogoutClearsSession ==
    [][(authPc = "setUser" /\ authPc' = "idle") =>
          (TokensRemoved' /\ ~isAuthenticated')]_vars

AuthQuiescent == authPc = "idle" /\ \A r \in RequestSlots : http[r].pc = "idle"

\* C26: whenever AuthContext reports isAuthenticated, and no AuthProvider
\* function and no request is in progress, an access token is in the token
\* store.
C26_AuthenticatedHasToken ==
    (isAuthenticated /\ AuthQuiescent) => accessToken # 0

\* C27: when requests were answered with 401 concurrently and a token refresh
\* succeeded, then after all interceptors have finished the token store holds
\* the pair returned by a successful refresh.
C27_SessionSurvivesRefresh ==
    (refreshedOk /\ \A r \in RequestSlots : http[r].pc \in {"idle", "ok", "rejected"}) =>
        /\ accessToken > 1
        /\ refreshToken = accessToken

====
